---- MODULE Spec2Model ----
(***************************************************************************)
(* Continuity (peer-to-peer session replication) of QuizPage.tsx.          *)
(*                                                                         *)
(* Every device runs one QuizPage component.  dev[d] holds the React state *)
(* and the refs of device d; conns holds the PeerJS data connections, each *)
(* with an initiator end and an acceptor end; registry is the signalling   *)
(* server's owner of the rendezvous identifier; server is what the         *)
(* backend answers: the quiz, and the saved progresses loadProgress may    *)
(* find.  budget holds how many more user actions and transport faults a   *)
(* behaviour may take.                                                     *)
(*                                                                         *)
(* Closures.  Every function of the component is re-created on each render *)
(* and reads the state values of the render that created it.  The          *)
(* lifecycle effect (lines 103-169) runs with the functions of the mount   *)
(* render, and every PeerJS callback is registered from there              *)
(* (initiateContinuity -> handlePeerConnectionAs* -> handlePeerDataAs*,    *)
(* handlePeerClose, initialSyncToPeer, checkAnswer(true)).  Such a         *)
(* callback therefore reads the useState values of the mount render        *)
(* (MountClosure) for plain state variables, the live value for refs       *)
(* (currentQuestionRef, reoccurrencesRef, ..., peerRef, startTimeRef) and  *)
(* the live value inside functional updaters (setX(prev => ...)).          *)
(* Functions called from the rendered UI (nextAction, the setSelectedAnswers*)
(* prop, resetProgress) belong to the latest render and read live state.   *)
(* Each handler below takes the live record s and the record cl it reads   *)
(* its closure variables from.                                             *)
(*                                                                         *)
(* A render and its ref-syncing effects (lines 172-191) are taken as part  *)
(* of the step that set the state.                                         *)
(***************************************************************************)
EXTENDS Integers, Sequences, FiniteSets, TLC

VARIABLES dev, conns, registry, server, budget

vars == <<dev, conns, registry, server, budget>>

----------------------------------------------------------------------------
(* Bounds of the model. *)

\* Devices negotiating their roles.
NumDevices == 2
\* User actions of a device on its own.
MaxUserActions == 3
\* User actions of connected devices.
MaxSyncActions == 2
\* User actions in a behaviour of three devices.
MaxRelayActions == 1
\* Transport faults.
MaxFaults == 1
\* The largest recurrence count of a saved progress.
MaxCount == 1

----------------------------------------------------------------------------
(* Data. *)

\* The rendezvous identifier `${quizId}_${userId}`; a client peer of device d
\* gets the server-assigned identifier d.
BaseId == 0

Answer(a, c) == [answer |-> a, correct |-> c]

\* quiz.questions of a quiz of two questions
Quiz ==
    << [id |-> 1, multiple |-> FALSE,
        answers |-> <<Answer("a", TRUE), Answer("b", FALSE)>>],
       [id |-> 2, multiple |-> TRUE,
        answers |-> <<Answer("a", TRUE), Answer("b", TRUE)>>] >>

\* quiz.questions of a quiz of one question with one answer
QuizOne ==
    << [id |-> 1, multiple |-> FALSE, answers |-> <<Answer("a", TRUE)>>] >>

\* quiz = null
NoQuiz == <<>>

\* currentQuestion = null
NoQuestion == [id |-> 0, multiple |-> FALSE, answers |-> <<>>]

DefaultSettings ==
    [sync_progress |-> FALSE, initial_reoccurrences |-> 1,
     wrong_answer_reoccurrences |-> 1]

\* What GET /settings/ answers for this user.
FetchedSettings ==
    [sync_progress |-> TRUE, initial_reoccurrences |-> 1,
     wrong_answer_reoccurrences |-> 2]

Reoccurrence(id, n) == [id |-> id, reoccurrences |-> n]

\* loadProgress found nothing (null, or current_question = 0).
NoProgress ==
    [current_question |-> 0, correct_answers_count |-> 0,
     wrong_answers_count |-> 0, study_time |-> 0, reoccurrences |-> <<>>]

\* A progress of QuizOne saved earlier.
StoredProgressOne ==
    [current_question |-> 1, correct_answers_count |-> 1,
     wrong_answers_count |-> 2, study_time |-> 5,
     reoccurrences |-> <<Reoccurrence(1, 3)>>]

\* A progress of QuizOne saved after its question was mastered.
StoredProgressDone ==
    [current_question |-> 1, correct_answers_count |-> 1,
     wrong_answers_count |-> 0, study_time |-> 5,
     reoccurrences |-> <<Reoccurrence(1, 0)>>]

\* A progress of QuizOne saved after its question was mastered, on a
\* question the quiz no longer has: loading it leaves no question current.
StoredProgressGone ==
    [current_question |-> 3, correct_answers_count |-> 1,
     wrong_answers_count |-> 0, study_time |-> 5,
     reoccurrences |-> <<Reoccurrence(1, 0)>>]

\* Recurrence lists of saved progresses of Quiz: the two questions, and
\* possibly question 3, which the quiz no longer has.
RecurrenceLists ==
    { <<Reoccurrence(1, a), Reoccurrence(2, b)>> : a, b \in 0..MaxCount }
    \cup { <<Reoccurrence(3, c), Reoccurrence(1, a), Reoccurrence(2, b)>> :
              a, b, c \in 0..MaxCount }

\* Progresses of Quiz saved earlier; the saved question is 1, or 3.
StoredProgress ==
    { [current_question |-> q, correct_answers_count |-> 1,
       wrong_answers_count |-> 0, study_time |-> 5, reoccurrences |-> r]
      : q \in {1, 3}, r \in RecurrenceLists }

\* Date.now() on device d (devices' clocks differ; time is not advanced).
Now(d) == 10 * d

----------------------------------------------------------------------------
(* Sequence helpers. *)

Includes(s, x) == \E i \in 1..Len(s) : s[i] = x

\* [...answers].sort(() => Math.random() - 0.5): any order of the answers.
Shuffles(answers) ==
    { [i \in 1..Len(answers) |-> answers[p[i]]] : p \in Permutations(1..Len(answers)) }

\* Sequences over 0..n-1 without repetition, of any length.
Selections(n) ==
    UNION { { [i \in 1..k |-> f[i]] : f \in { g \in [1..k -> 0..(n-1)] :
                \A i, j \in 1..k : i # j => g[i] # g[j] } } : k \in 0..n }

----------------------------------------------------------------------------
(* Component state. *)

\* useState / useRef initial values (lines 62-96).
InitialState(d) ==
    [ pc                  |-> "start",
      quiz                |-> NoQuiz,
      userSettings        |-> DefaultSettings,
      reoccurrences       |-> <<>>,
      currentQuestion     |-> NoQuestion,
      selectedAnswers     |-> <<>>,
      questionChecked     |-> FALSE,
      correctAnswersCount |-> 0,
      wrongAnswersCount   |-> 0,
      isQuizFinished      |-> FALSE,
      startTime           |-> Now(d),
      peerConnections     |-> <<>>,
      isContinuityHost    |-> FALSE,
      peer                |-> "none",
      peers               |-> <<>> ]

\* The state values read by the functions of the render in which the
\* lifecycle effect ran: the mount render.
MountClosure(d) == InitialState(d)

----------------------------------------------------------------------------
(* Messages (lines 590-621). *)

\* Mutant: the two counters change places.
InitialSyncMessageSwapped(startTime, correctAnswersCount, wrongAnswersCount, reoccurrences) ==
    [ type |-> "initial_sync", startTime |-> startTime,
      correctAnswersCount |-> wrongAnswersCount,
      wrongAnswersCount |-> correctAnswersCount,
      reoccurrences |-> reoccurrences ]

InitialSyncMessage(startTime, correctAnswersCount, wrongAnswersCount, reoccurrences) ==
    [ type |-> "initial_sync", startTime |-> startTime,
      correctAnswersCount |-> correctAnswersCount,
      wrongAnswersCount |-> wrongAnswersCount,
      reoccurrences |-> reoccurrences ]

QuestionUpdateMessage(question, selectedAnswers) ==
    [ type |-> "question_update", question |-> question,
      selectedAnswers |-> selectedAnswers ]

AnswerCheckedMessage == [ type |-> "answer_checked" ]

PingMessage == [ type |-> "ping" ]

PongMessage == [ type |-> "pong" ]

\* A message whose type neither handler has a case for (lines 783-785,
\* 845-847).
UnknownMessage == [ type |-> "unknown" ]

----------------------------------------------------------------------------
(* Question handling (lines 327-441). *)

\* Mutant: a question whose count is 0 is available too.
AvailableFromZero(recurrencesData) ==
    SelectSeq(recurrencesData, LAMBDA r : r.reoccurrences >= 0)

\* recurrencesData.filter((r) => r.reoccurrences > 0)
Available(recurrencesData) ==
    SelectSeq(recurrencesData, LAMBDA r : r.reoccurrences > 0)

\* quizData.questions.find((q) => q.id === id): the questions with that id,
\* in quiz order; find returns the first, or undefined when there is none.
FindQuestion(quizData, id) ==
    SelectSeq(quizData, LAMBDA q : q.id = id)

\* The outcomes of pickRandomQuestion(quizData, recurrencesData): the question
\* it makes current (NoQuestion for null), what it does to isQuizFinished
\* ("true", "false", or "same" when it leaves it alone), and what it returns
\* (NoQuestion for undefined).
PickRandomQuestion(quizData, recurrencesData) ==
    LET available == Available(recurrencesData) IN
    IF Len(available) = 0
    THEN { [question |-> NoQuestion, finished |-> "true", returned |-> NoQuestion] }
    ELSE UNION { LET found == FindQuestion(quizData, available[i].id) IN
                 IF Len(found) = 0
                 THEN { [question |-> NoQuestion, finished |-> "same",
                         returned |-> NoQuestion] }
                 ELSE { [question |-> [found[1] EXCEPT !.answers = sortedAnswers],
                         finished |-> "false",
                         returned |-> [found[1] EXCEPT !.answers = sortedAnswers]]
                        : sortedAnswers \in Shuffles(found[1].answers) }
               : i \in 1..Len(available) }

\* The state after pickRandomQuestion chose outcome o.
ApplyPick(s, o) ==
    [ s EXCEPT !.currentQuestion = o.question,
               !.isQuizFinished = IF o.finished = "same" THEN @ ELSE o.finished = "true" ]

\* answers.map((ans, idx) => (ans.correct ? idx : -1)).filter((idx) => idx !== -1)
CorrectIndices(question) ==
    LET marked == [ i \in 1..Len(question.answers) |->
                      IF question.answers[i].correct THEN i - 1 ELSE -1 ]
    IN SelectSeq(marked, LAMBDA idx : idx # -1)

\* Mutant: the counts of the other questions go down.
DecrementForNeighbour(prev, id) ==
    [ i \in 1..Len(prev) |->
        IF prev[i].id # id
        THEN [prev[i] EXCEPT !.reoccurrences =
                 IF prev[i].reoccurrences - 1 > 0 THEN prev[i].reoccurrences - 1 ELSE 0]
        ELSE prev[i] ]

\* lines 395-397
IsCorrect(correctIndices, selectedAnswers) ==
    /\ Len(correctIndices) = Len(selectedAnswers)
    /\ \A i \in 1..Len(correctIndices) : Includes(selectedAnswers, correctIndices[i])

\* DecrementFor without Math.max.
DecrementForBelowZero(prev, id) ==
    [ i \in 1..Len(prev) |->
        IF prev[i].id = id
        THEN [prev[i] EXCEPT !.reoccurrences = prev[i].reoccurrences - 1]
        ELSE prev[i] ]

\* lines 402-408
DecrementFor(prev, id) ==
    [ i \in 1..Len(prev) |->
        IF prev[i].id = id
        THEN [prev[i] EXCEPT !.reoccurrences =
                 IF prev[i].reoccurrences - 1 > 0 THEN prev[i].reoccurrences - 1 ELSE 0]
        ELSE prev[i] ]

\* lines 412-422
IncreaseFor(prev, id, penalty) ==
    [ i \in 1..Len(prev) |->
        IF prev[i].id = id
        THEN [prev[i] EXCEPT !.reoccurrences = prev[i].reoccurrences + penalty]
        ELSE prev[i] ]

\* checkAnswer does not return at line 385.
CheckEffective(s, cl) ==
    ~cl.questionChecked /\ s.currentQuestion # NoQuestion

\* The state after checkAnswer (lines 384-425), run by a function whose closure
\* is cl, on the live state s.
CheckAnswer(s, cl) ==
    IF ~CheckEffective(s, cl) THEN s
    ELSE IF IsCorrect(CorrectIndices(s.currentQuestion), cl.selectedAnswers)
         THEN [ s EXCEPT !.correctAnswersCount = @ + 1,
                         !.reoccurrences = DecrementFor(@, s.currentQuestion.id),
                         !.questionChecked = TRUE ]
         ELSE [ s EXCEPT !.wrongAnswersCount = @ + 1,
                         !.reoccurrences =
                             IncreaseFor(@, s.currentQuestion.id,
                                         cl.userSettings.wrong_answer_reoccurrences),
                         !.questionChecked = TRUE ]

\* quiz.questions.map((q) => ({id: q.id, reoccurrences: initial}))
FreshReoccurrences(quizData, initial) ==
    [ i \in 1..Len(quizData) |-> Reoccurrence(quizData[i].id, initial) ]

----------------------------------------------------------------------------
(* Connections.                                                            *)
(*                                                                         *)
(* conns[k] is one data connection: the DataConnection object of the       *)
(* initiator (device from, peer id fromId, which dialled toId) and the one *)
(* of the acceptor (device to, 0 while the offer is in flight).  i and a   *)
(* are the two objects' states: "none" (no object yet), "connecting",      *)
(* "open", "closed", "failed".  qa and qi are the messages in flight to    *)
(* the acceptor and to the initiator.  lost: the transport underneath has  *)
(* gone.  asHost: the acceptor's callbacks are those of                    *)
(* handlePeerConnectionAsHost.  reconnect: dialled by handlePeerClose.     *)
(* snap is history: the acceptor's state when its end opened; syncLeft is  *)
(* history: how many messages of the initial synchronisation are still in  *)
(* flight to the initiator; synced is history: the initiator's data        *)
(* callback has handled an initial_sync and the transport is still up.     *)
(***************************************************************************)

NoSnapshot == [taken |-> FALSE]

NewConnection(d, fromId, peerId, reconnect) ==
    [ from |-> d, fromId |-> fromId, toId |-> peerId, to |-> 0,
      i |-> "connecting", a |-> "none", qa |-> <<>>, qi |-> <<>>,
      lost |-> FALSE, asHost |-> FALSE, reconnect |-> reconnect,
      snap |-> NoSnapshot, syncLeft |-> 0, synced |-> FALSE ]

\* conn.open, for the object device d holds
ConnOpen(c, d) ==
    IF c.from = d THEN c.i = "open" ELSE c.to = d /\ c.a = "open"

\* conn.peer, for the object device d holds
ConnPeer(c, d) == IF c.from = d THEN c.toId ELSE c.fromId

\* The identifier of the peer peerRef.current of a device in state s.
PeerId(s, d) == IF s.peer = "host" THEN BaseId ELSE d

\* PeerRefSet were the host peer's open callback not to store the peer.
PeerRefSetClientOnly(s) == s.peer \in {"client", "destroyed"}

\* peerRef.current is set (lines 654, 678); it stays set when the peer is
\* destroyed.
PeerRefSet(s) == s.peer \in {"host", "client", "destroyed"}

\* peerRef.current && !peerRef.current.destroyed (lines 793, 869)
PeerAlive(s) == s.peer \in {"host", "client"}

\* The device at the other end of connection record c, seen from device d.
OtherParty(c, d) == IF c.from = d THEN c.to ELSE c.from

\* sendToPeer (lines 875-879), by device d on connection record c.
SendToPeer(c, d, data) ==
    IF ~ConnOpen(c, d) \/ c.lost THEN c
    ELSE IF c.from = d THEN [c EXCEPT !.qa = Append(@, data)]
         ELSE [c EXCEPT !.qi = Append(@, data)]

\* sendToAllPeers (lines 881-885), over the list peerConnections of the
\* caller's closure.
SendToAllPeers(cs, d, peerConnections, data) ==
    [ k \in DOMAIN cs |->
        IF Includes(peerConnections, k) THEN SendToPeer(cs[k], d, data) ELSE cs[k] ]

\* sendToAllPeersExcept (lines 887-896)
SendToAllPeersExcept(cs, d, peerConnections, exceptConn, data) ==
    [ k \in DOMAIN cs |->
        IF Includes(peerConnections, k) /\ k # exceptConn
        THEN SendToPeer(cs[k], d, data) ELSE cs[k] ]

\* pingPeers (lines 850-866), run by the interval of the lifecycle effect: a
\* ping, and a timeout, for every open connection of its closure's
\* peerConnections.
PingPeers(cs, d, peerConnections) ==
    SendToAllPeers(cs, d, peerConnections, PingMessage)

\* initialSyncToPeer (lines 898-915), called from the open callback of
\* handlePeerConnectionAsHost: the question, recurrences and counters come from
\* the refs (live), selectedAnswers from the closure cl.
InitialSyncToPeer(c, d, s, cl) ==
    IF s.currentQuestion = NoQuestion THEN c
    ELSE SendToPeer(
           SendToPeer(c, d, InitialSyncMessage(s.startTime, s.correctAnswersCount,
                                                s.wrongAnswersCount, s.reoccurrences)),
           d, QuestionUpdateMessage(s.currentQuestion, cl.selectedAnswers))

\* new Peer(...) (lines 637, 663): one more peer identity of the device,
\* asking for baseId (host) or for an id of its own.
NewPeer(peers, host) == Append(peers, [host |-> host, destroyed |-> FALSE])

\* The peer identity created last is destroyed: by peerRef.current.destroy()
\* (line 870), or by PeerJS when the registration of the peer fails.
DestroyPeer(peers) ==
    IF Len(peers) = 0 THEN peers
    ELSE [peers EXCEPT ![Len(peers)].destroyed = TRUE]

\* InitiateContinuity without the guard on peerRef.current.
InitiateContinuityUnguarded(s) ==
    [s EXCEPT !.peer = "hostPending", !.peers = NewPeer(@, TRUE)]

\* initiateContinuity (lines 623-704) as far as it runs at once: nothing when
\* peerRef.current is set, else a new Peer(baseId) whose registration is
\* pending.
InitiateContinuity(s) ==
    IF PeerRefSet(s) THEN s
    ELSE [s EXCEPT !.peer = "hostPending", !.peers = NewPeer(@, TRUE)]

----------------------------------------------------------------------------
(* Saving the progress (lines 170-177, 246-283). *)

\* One run of saveProgress by device d in state s past its first line: the
\* progress is written to localStorage (line 258) and, when posted, sent by
\* axiosInstance.post to /quiz-progress/ (line 266).  The log keeps the
\* sender, its role, the size of its active set and its sync_progress
\* setting.
Saved(sv, d, s, posted) ==
    IF sv.audit
    THEN [sv EXCEPT !.saves = @ \cup { [by |-> d, host |-> s.isContinuityHost,
                                        connections |-> Len(s.peerConnections),
                                        sync |-> s.userSettings.sync_progress,
                                        posted |-> posted] }]
    ELSE sv

\* SaveProgress deciding on the role and the connections of the mount
\* render.
SaveProgressOfMount(sv, d, s, cl) ==
    IF cl.currentQuestion = NoQuestion \/ cl.isQuizFinished THEN sv
    ELSE Saved(sv, d, s, /\ cl.userSettings.sync_progress
                         /\ InitialState(d).isContinuityHost
                            \/ Len(InitialState(d).peerConnections) = 0)

\* saveProgress (lines 246-283) called by device d in state s, cl being the
\* render the called function belongs to.
SaveProgress(sv, d, s, cl) ==
    IF cl.currentQuestion = NoQuestion \/ cl.isQuizFinished THEN sv
    ELSE Saved(sv, d, s, /\ cl.userSettings.sync_progress
                         /\ cl.isContinuityHost \/ Len(cl.peerConnections) = 0)

\* The effect on currentQuestion (lines 171-177) after a step that made a
\* question current and left device d in state s: it calls the saveProgress
\* of the render it runs after.
CurrentQuestionEffect(sv, d, s) ==
    IF s.currentQuestion # NoQuestion THEN SaveProgress(sv, d, s, s) ELSE sv

\* What a call of pickRandomQuestion with outcome o does to the service:
\* with nothing available it calls the saveProgress of its render cl (line
\* 365); a question made current runs the effect in the state s that
\* follows.
PickSaves(sv, d, o, cl, s) ==
    IF o.finished = "true" THEN SaveProgress(sv, d, cl, cl)
    ELSE IF o.question # NoQuestion THEN CurrentQuestionEffect(sv, d, s)
    ELSE sv

----------------------------------------------------------------------------
(* Lifecycle (lines 103-169). *)

\* n devices about to mount the page of the quiz the backend holds.
Start(n, quizData, progress, userActions, faults) ==
    /\ dev = [d \in 1..n |-> InitialState(d)]
    /\ conns = <<>>
    /\ registry = 0
    /\ server = [quiz |-> quizData, progress |-> progress,
                 audit |-> FALSE, saves |-> {}]
    /\ budget = [user |-> userActions, fault |-> faults]

\* Start with the runs of saveProgress logged.
StartAudited(n, quizData, progress, userActions, faults) ==
    /\ dev = [d \in 1..n |-> InitialState(d)]
    /\ conns = <<>>
    /\ registry = 0
    /\ server = [quiz |-> quizData, progress |-> progress,
                 audit |-> TRUE, saves |-> {}]
    /\ budget = [user |-> userActions, fault |-> faults]

\* The lifecycle effect up to its await of loadProgress: the quiz and the
\* settings are fetched, initiateContinuity runs when sync_progress is set.
Mount(d) ==
    /\ dev[d].pc = "start"
    /\ LET s == [dev[d] EXCEPT !.quiz = server.quiz, !.userSettings = FetchedSettings,
                               !.pc = "awaitProgress"]
       IN dev' = [dev EXCEPT ![d] = IF FetchedSettings.sync_progress
                                    THEN InitiateContinuity(s) ELSE s]
    /\ UNCHANGED <<conns, registry, server, budget>>

\* applyLoadedProgress (lines 327-356) with pick outcome o (used when the
\* saved question is not in the quiz).
ApplyLoadedProgress(s, quizData, savedProgress, o, sortedAnswers) ==
    LET s1 == [ s EXCEPT !.correctAnswersCount = savedProgress.correct_answers_count,
                         !.wrongAnswersCount = savedProgress.wrong_answers_count,
                         !.reoccurrences = savedProgress.reoccurrences ]
        found == FindQuestion(quizData, savedProgress.current_question)
    IN IF Len(found) = 0 THEN ApplyPick(s1, o)
       ELSE [ s1 EXCEPT !.currentQuestion = [found[1] EXCEPT !.answers = sortedAnswers],
                        !.isQuizFinished =
                            IF Len(Available(savedProgress.reoccurrences)) = 0
                            THEN TRUE ELSE @ ]

\* The rest of the lifecycle effect (lines 131-146): loadProgress answered
\* savedProgress; quizData is the quiz fetched at line 110.
LoadProgress(d, savedProgress) ==
    /\ dev[d].pc = "awaitProgress"
    /\ LET s == [dev[d] EXCEPT !.pc = "ready"]
           quizData == dev[d].quiz
       IN
       IF savedProgress.current_question # 0
       THEN LET found == FindQuestion(quizData, savedProgress.current_question)
                s0 == [s EXCEPT !.startTime = Now(d) - savedProgress.study_time]
            IN \E o \in PickRandomQuestion(quizData, savedProgress.reoccurrences) :
               \E sortedAnswers \in (IF Len(found) = 0 THEN {<<>>}
                                     ELSE Shuffles(found[1].answers)) :
                 LET s1 == ApplyLoadedProgress(s0, quizData, savedProgress, o,
                                               sortedAnswers)
                 IN /\ dev' = [dev EXCEPT ![d] = s1]
                    /\ server' = IF Len(found) = 0
                                 THEN PickSaves(server, d, o, MountClosure(d), s1)
                                 ELSE CurrentQuestionEffect(server, d, s1)
       ELSE LET newReoccurrences ==
                    FreshReoccurrences(quizData, s.userSettings.initial_reoccurrences)
            IN \E o \in PickRandomQuestion(quizData, newReoccurrences) :
                 LET s1 == ApplyPick([s EXCEPT !.reoccurrences = newReoccurrences], o)
                 IN /\ dev' = [dev EXCEPT ![d] = s1]
                    /\ server' = PickSaves(server, d, o, MountClosure(d), s1)
    /\ UNCHANGED <<conns, registry, budget>>

\* The ping interval of the lifecycle effect fires (lines 152-155).
PingTick(d) ==
    /\ dev[d].pc \notin {"start", "closed"}
    /\ conns' = PingPeers(conns, d, MountClosure(d).peerConnections)
    /\ UNCHANGED <<dev, registry, server, budget>>

----------------------------------------------------------------------------
(* Local user actions, run by the functions of the latest render. *)

\* The page shows the question card (lines 919-953).
Rendered(s) == s.pc = "ready" /\ s.quiz # NoQuiz

\* checkAnswer() from nextAction (lines 443-449), which calls it only while the
\* question is unchecked.
LocalCheck(d) ==
    /\ Rendered(dev[d])
    /\ budget.user > 0
    /\ CheckEffective(dev[d], dev[d])
    /\ dev' = [dev EXCEPT ![d] = CheckAnswer(dev[d], dev[d])]
    /\ conns' = SendToAllPeers(conns, d, dev[d].peerConnections, AnswerCheckedMessage)
    /\ budget' = [budget EXCEPT !.user = @ - 1]
    /\ UNCHANGED <<registry, server>>

\* nextQuestion (lines 433-441), from nextAction or the "s" key.
NextQuestion(d) ==
    /\ Rendered(dev[d])
    /\ budget.user > 0
    /\ \E o \in PickRandomQuestion(dev[d].quiz, dev[d].reoccurrences) :
         /\ dev' = [dev EXCEPT ![d] = [ApplyPick(dev[d], o) EXCEPT
                                          !.selectedAnswers = <<>>,
                                          !.questionChecked = FALSE]]
         /\ server' = PickSaves(server, d, o, dev[d],
                                [ApplyPick(dev[d], o) EXCEPT
                                    !.selectedAnswers = <<>>,
                                    !.questionChecked = FALSE])
         /\ conns' = IF o.returned # NoQuestion
                     THEN SendToAllPeers(conns, d, dev[d].peerConnections,
                                         QuestionUpdateMessage(o.returned, <<>>))
                     ELSE conns
    /\ budget' = [budget EXCEPT !.user = @ - 1]
    /\ UNCHANGED registry

\* The setSelectedAnswers prop of QuestionCard (lines 962-988).
SelectAnswers(d, newSelected) ==
    /\ Rendered(dev[d])
    /\ budget.user > 0
    /\ LET s == dev[d]
           q == s.currentQuestion
       IN IF q # NoQuestion /\ ~q.multiple
          THEN /\ dev' = [dev EXCEPT ![d].selectedAnswers =
                            IF Len(newSelected) > 0 THEN <<newSelected[1]>> ELSE <<>>]
               /\ conns' = IF Len(newSelected) > 0
                           THEN SendToAllPeers(conns, d, s.peerConnections,
                                  QuestionUpdateMessage(q, <<newSelected[1]>>))
                           ELSE conns
          ELSE /\ dev' = [dev EXCEPT ![d].selectedAnswers = newSelected]
               /\ conns' = IF q # NoQuestion /\ Len(newSelected) > 0
                           THEN SendToAllPeers(conns, d, s.peerConnections,
                                  QuestionUpdateMessage(q, newSelected))
                           ELSE conns
    /\ budget' = [budget EXCEPT !.user = @ - 1]
    /\ UNCHANGED <<registry, server>>

\* resetProgress (lines 285-308)
ResetProgress(d) ==
    /\ Rendered(dev[d])
    /\ budget.user > 0
    /\ LET newReoccurrences ==
               FreshReoccurrences(dev[d].quiz, dev[d].userSettings.initial_reoccurrences)
           s == [dev[d] EXCEPT !.reoccurrences = newReoccurrences,
                               !.correctAnswersCount = 0,
                               !.wrongAnswersCount = 0,
                               !.isQuizFinished = FALSE,
                               !.startTime = Now(d)]
       IN \E o \in PickRandomQuestion(dev[d].quiz, newReoccurrences) :
            /\ dev' = [dev EXCEPT ![d] = ApplyPick(s, o)]
            /\ server' = PickSaves(server, d, o, dev[d], ApplyPick(s, o))
    /\ budget' = [budget EXCEPT !.user = @ - 1]
    /\ UNCHANGED <<conns, registry>>

----------------------------------------------------------------------------
(* Role negotiation (lines 623-729). *)

\* hostPeer.on("open") (lines 652-656): the server registered baseId for d.
HostPeerOpen(d) ==
    /\ dev[d].peer = "hostPending"
    /\ registry = 0
    /\ registry' = d
    /\ dev' = [dev EXCEPT ![d].peer = "host", ![d].isContinuityHost = TRUE]
    /\ UNCHANGED <<conns, server, budget>>

\* Mutant: unavailable-id is only logged, like any other error.
HostPeerUnavailableIdLogged(d) ==
    /\ dev[d].peer = "hostPending"
    /\ registry # 0
    /\ dev' = [dev EXCEPT ![d].peer = "failed"]
    /\ UNCHANGED <<conns, registry, server, budget>>

\* hostPeer.on("error") with err.type = "unavailable-id" (lines 659-694):
\* baseId is taken; a client peer is created.  The error is fatal to the
\* host peer, which PeerJS destroys.
HostPeerUnavailableId(d) ==
    /\ dev[d].peer = "hostPending"
    /\ registry # 0
    /\ dev' = [dev EXCEPT ![d].peer = "clientPending", ![d].isContinuityHost = FALSE,
                          ![d].peers = NewPeer(DestroyPeer(@), FALSE)]
    /\ UNCHANGED <<conns, registry, server, budget>>

\* HostPeerError with a handler that takes the failure for a registration.
HostPeerErrorTakesRole(d) ==
    /\ dev[d].peer = "hostPending"
    /\ budget.fault > 0
    /\ dev' = [dev EXCEPT ![d].peer = "failed", ![d].isContinuityHost = TRUE]
    /\ budget' = [budget EXCEPT !.fault = @ - 1]
    /\ UNCHANGED <<conns, registry, server>>

\* hostPeer.on("error") with any other error (lines 695-697): logged.  The
\* registration failed, and PeerJS destroys the host peer.
HostPeerError(d) ==
    /\ dev[d].peer = "hostPending"
    /\ budget.fault > 0
    /\ dev' = [dev EXCEPT ![d].peer = "failed", ![d].peers = DestroyPeer(@)]
    /\ budget' = [budget EXCEPT !.fault = @ - 1]
    /\ UNCHANGED <<conns, registry, server>>

\* clientPeer.on("open") (lines 677-688): peerRef is set and connectToPeer
\* dials baseId (doConnect, lines 715-721).
ClientPeerOpen(d) ==
    /\ dev[d].peer = "clientPending"
    /\ dev' = [dev EXCEPT ![d].peer = "client"]
    /\ conns' = Append(conns, NewConnection(d, d, BaseId, FALSE))
    /\ UNCHANGED <<registry, server, budget>>

\* The device whose open peer has identifier id, 0 when there is none.
Owner(id) ==
    IF id = BaseId THEN registry
    ELSE IF id \in DOMAIN dev /\ dev[id].peer = "client" THEN id ELSE 0

\* peer.on("connection") at the dialled peer: handlePeerConnectionAsHost
\* (lines 731-733, registered at line 700) on a host peer,
\* handlePeerConnectionAsClient (line 694) on a client peer.
Accept(k) ==
    /\ conns[k].i = "connecting" /\ conns[k].a = "none" /\ ~conns[k].lost
    /\ Owner(conns[k].toId) # 0
    /\ LET e == Owner(conns[k].toId)
           asHost == dev[e].peer = "host"
       IN /\ conns' = [conns EXCEPT ![k].to = e, ![k].a = "connecting",
                                    ![k].asHost = asHost]
          /\ dev' = IF asHost
                    THEN [dev EXCEPT ![e].peerConnections = Append(@, k)]
                    ELSE dev
    /\ UNCHANGED <<registry, server, budget>>

\* conn.on("open") at the acceptor (lines 735-746 on a host).
OpenAcceptor(k) ==
    /\ conns[k].a = "connecting" /\ ~conns[k].lost
    /\ LET e == conns[k].to
           c == [conns[k] EXCEPT !.a = "open"]
       IN conns' = [conns EXCEPT ![k] =
                      IF c.asHost
                      THEN [InitialSyncToPeer(c, e, dev[e], MountClosure(e))
                              EXCEPT !.snap = dev[e],
                                     !.syncLeft = IF dev[e].currentQuestion = NoQuestion
                                                  THEN 0 ELSE 2]
                      ELSE c]
    /\ UNCHANGED <<dev, registry, server, budget>>

\* conn.on("open") at the initiator (lines 722-725); the promise resolves and
\* handlePeerConnectionAsClient registers the callbacks (lines 682, 797).
OpenInitiator(k) ==
    /\ conns[k].i = "connecting" /\ conns[k].a \in {"connecting", "open"}
    /\ ~conns[k].lost
    /\ conns' = [conns EXCEPT ![k].i = "open"]
    /\ dev' = [dev EXCEPT ![conns[k].from].peerConnections = Append(@, k)]
    /\ UNCHANGED <<registry, server, budget>>

\* ConnectFail with a first dial whose catch starts the registration anew.
ConnectFailRetrying(k) ==
    /\ conns[k].i = "connecting" /\ conns[k].a = "none"
    /\ budget.fault > 0
    /\ conns' = [conns EXCEPT ![k].i = "failed"]
    /\ dev' = [dev EXCEPT ![conns[k].from] =
                 IF conns[k].reconnect THEN InitiateContinuity(@)
                                       ELSE [@ EXCEPT !.peer = "hostPending"]]
    /\ budget' = [budget EXCEPT !.fault = @ - 1]
    /\ UNCHANGED <<registry, server>>

\* conn.on("error", reject) (line 726): the dial failed.  The first dial's
\* catch alerts (lines 684-687); a redial's catch calls initiateContinuity
\* (lines 799-802).
ConnectFail(k) ==
    /\ conns[k].i = "connecting" /\ conns[k].a = "none"
    /\ budget.fault > 0
    /\ conns' = [conns EXCEPT ![k].i = "failed"]
    /\ dev' = [dev EXCEPT ![conns[k].from] =
                 IF conns[k].reconnect THEN InitiateContinuity(@) ELSE @]
    /\ budget' = [budget EXCEPT !.fault = @ - 1]
    /\ UNCHANGED <<registry, server>>

----------------------------------------------------------------------------
(* Inbound messages (lines 759-786, 822-848). *)

\* ApplyMessage with a Host that takes an initial_sync as a Client does.
ApplyMessageSyncAnywhere(s, cl, data, asHost) ==
    IF data.type = "initial_sync"
    THEN [ s EXCEPT !.startTime = data.startTime,
                    !.correctAnswersCount = data.correctAnswersCount,
                    !.wrongAnswersCount = data.wrongAnswersCount,
                    !.reoccurrences = data.reoccurrences ]
    ELSE IF data.type = "question_update"
    THEN [ s EXCEPT !.currentQuestion = data.question,
                    !.questionChecked = FALSE,
                    !.selectedAnswers = data.selectedAnswers ]
    ELSE IF data.type = "answer_checked"
    THEN CheckAnswer(s, cl)
    ELSE s

\* ApplyMessage with a ping that restarts the clock of the session.
ApplyMessagePingRestarts(s, cl, data, asHost) ==
    IF data.type = "initial_sync" /\ ~asHost
    THEN [ s EXCEPT !.startTime = data.startTime,
                    !.correctAnswersCount = data.correctAnswersCount,
                    !.wrongAnswersCount = data.wrongAnswersCount,
                    !.reoccurrences = data.reoccurrences ]
    ELSE IF data.type = "question_update"
    THEN [ s EXCEPT !.currentQuestion = data.question,
                    !.questionChecked = FALSE,
                    !.selectedAnswers = data.selectedAnswers ]
    ELSE IF data.type = "answer_checked"
    THEN CheckAnswer(s, cl)
    ELSE IF data.type = "ping"
    THEN [ s EXCEPT !.startTime = 0 ]
    ELSE s

\* ApplyMessage with a question_update that leaves the selection alone.
ApplyMessageKeepingSelection(s, cl, data, asHost) ==
    IF data.type = "initial_sync" /\ ~asHost
    THEN [ s EXCEPT !.startTime = data.startTime,
                    !.correctAnswersCount = data.correctAnswersCount,
                    !.wrongAnswersCount = data.wrongAnswersCount,
                    !.reoccurrences = data.reoccurrences ]
    ELSE IF data.type = "question_update"
    THEN [ s EXCEPT !.currentQuestion = data.question,
                    !.questionChecked = FALSE ]
    ELSE IF data.type = "answer_checked"
    THEN CheckAnswer(s, cl)
    ELSE s

\* The state after handlePeerDataAsHost or handlePeerDataAsClient set it,
\* cl being the handler's closure.
ApplyMessage(s, cl, data, asHost) ==
    IF data.type = "initial_sync" /\ ~asHost
    THEN [ s EXCEPT !.startTime = data.startTime,
                    !.correctAnswersCount = data.correctAnswersCount,
                    !.wrongAnswersCount = data.wrongAnswersCount,
                    !.reoccurrences = data.reoccurrences ]
    ELSE IF data.type = "question_update"
    THEN [ s EXCEPT !.currentQuestion = data.question,
                    !.questionChecked = FALSE,
                    !.selectedAnswers = data.selectedAnswers ]
    ELSE IF data.type = "answer_checked"
    THEN CheckAnswer(s, cl)
    ELSE s

\* What handlePeerDataAsHost sends on receiving data on connection k: the relay
\* to the other connections of its closure's peerConnections, the pong.
HostReplies(cs, d, cl, k, data) ==
    IF data.type = "question_update"
    THEN SendToAllPeersExcept(cs, d, cl.peerConnections, k,
             QuestionUpdateMessage(data.question, data.selectedAnswers))
    ELSE IF data.type = "answer_checked"
    THEN SendToAllPeersExcept(cs, d, cl.peerConnections, k, AnswerCheckedMessage)
    ELSE IF data.type = "ping"
    THEN [cs EXCEPT ![k] = SendToPeer(@, d, PongMessage)]
    ELSE cs

\* ClientReplies with a client that passes on what it is told, on every
\* connection it holds.
ClientRepliesRelaying(cs, d, cl, data) ==
    IF data.type \in {"question_update", "answer_checked"}
    THEN [ j \in DOMAIN cs |->
             IF cs[j].from = d \/ cs[j].to = d THEN SendToPeer(cs[j], d, data)
             ELSE cs[j] ]
    ELSE IF data.type = "ping" /\ Len(cl.peerConnections) > 0
    THEN [cs EXCEPT ![cl.peerConnections[1]] = SendToPeer(@, d, PongMessage)]
    ELSE cs

\* What handlePeerDataAsClient sends: the pong goes to peerConnections[0] of
\* its closure (line 842); with an empty list sendToPeer throws on undefined
\* and nothing is sent.
ClientReplies(cs, d, cl, data) ==
    IF data.type = "ping" /\ Len(cl.peerConnections) > 0
    THEN [cs EXCEPT ![cl.peerConnections[1]] = SendToPeer(@, d, PongMessage)]
    ELSE cs

\* The messages in flight to device d on connection record c.
Inbox(c, d) == IF c.from = d THEN c.qi ELSE c.qa

\* conn.on("data") at device d on connection k (lines 748-750, 811-813).
Deliver(k, d) ==
    /\ ConnOpen(conns[k], d) /\ ~conns[k].lost
    /\ Len(Inbox(conns[k], d)) > 0
    /\ LET data == Head(Inbox(conns[k], d))
           asHost == conns[k].to = d /\ conns[k].asHost
           cs == [conns EXCEPT ![k] =
                    IF conns[k].from = d
                    THEN [@ EXCEPT !.qi = Tail(@),
                                   !.syncLeft = IF @ > 0 THEN @ - 1 ELSE 0,
                                   !.synced = @ \/ data.type = "initial_sync"]
                    ELSE [@ EXCEPT !.qa = Tail(@)]]
       IN /\ dev' = [dev EXCEPT ![d] = ApplyMessage(@, MountClosure(d), data, asHost)]
          /\ conns' = IF asHost
                      THEN HostReplies(cs, d, MountClosure(d), k, data)
                      ELSE ClientReplies(cs, d, MountClosure(d), data)
          /\ server' = IF data.type = "question_update"
                       THEN CurrentQuestionEffect(server, d,
                                ApplyMessage(dev[d], MountClosure(d), data, asHost))
                       ELSE server
    /\ UNCHANGED <<registry, budget>>

\* A peer that sends its initial_sync a second time: the data callback of
\* the client (lines 811-813, 822-829) is handed whatever arrives on the
\* connection.
RepeatedSync(k) ==
    /\ conns[k].a = "open" /\ conns[k].i = "open" /\ ~conns[k].lost
    /\ conns[k].synced /\ conns[k].syncLeft = 0
    /\ budget.fault > 0
    /\ LET s == dev[conns[k].to]
       IN conns' = [conns EXCEPT ![k] =
                      SendToPeer(@, conns[k].to,
                                 InitialSyncMessage(s.startTime, s.correctAnswersCount,
                                                    s.wrongAnswersCount, s.reoccurrences))]
    /\ budget' = [budget EXCEPT !.fault = @ - 1]
    /\ UNCHANGED <<dev, registry, server>>

\* What a peer may send that the peers of this page do not send of their
\* own accord: a ping, a message of unknown type, an initial_sync outside the
\* opening of a connection.
ForeignMessages ==
    { PingMessage, UnknownMessage,
      InitialSyncMessage(StoredProgressOne.study_time,
                         StoredProgressOne.correct_answers_count,
                         StoredProgressOne.wrong_answers_count,
                         StoredProgressOne.reoccurrences) }

\* The peer at the other end of the idle connection k sends device d the
\* message data: the data callbacks (lines 748-750, 811-813) are handed
\* whatever arrives.
ForeignMessage(k, d, data) ==
    /\ conns[k].i = "open" /\ conns[k].a = "open" /\ ~conns[k].lost
    /\ conns[k].from = d \/ conns[k].to = d
    /\ conns[k].qa = <<>> /\ conns[k].qi = <<>>
    /\ conns' = [conns EXCEPT ![k] = SendToPeer(@, OtherParty(@, d), data)]
    /\ UNCHANGED <<dev, registry, server, budget>>

----------------------------------------------------------------------------
(* Connection loss (lines 788-807). *)

\* The transport under an open connection goes; what was in flight is lost.
ConnectionLost(k) ==
    /\ conns[k].i = "open" /\ conns[k].a = "open" /\ ~conns[k].lost
    /\ budget.fault > 0
    /\ conns' = [conns EXCEPT ![k].lost = TRUE, ![k].qa = <<>>, ![k].qi = <<>>,
                               ![k].syncLeft = 0, ![k].synced = FALSE]
    /\ budget' = [budget EXCEPT !.fault = @ - 1]
    /\ UNCHANGED <<dev, registry, server>>

\* StillConnected without the filter.
StillConnectedAll(cs, d, prev, k) == prev

\* prev.filter((c) => c.open && c.peer !== conn.peer) (line 790)
StillConnected(cs, d, prev, k) ==
    SelectSeq(prev, LAMBDA j : ConnOpen(cs[j], d) /\ ConnPeer(cs[j], d) # ConnPeer(cs[k], d))

\* conn.on("close") -> handlePeerClose(conn) at device d (lines 756, 819,
\* 788-807), cl being the handler's closure.
HandlePeerClose(k, d, cl) ==
    LET cs == [conns EXCEPT ![k] = IF conns[k].from = d
                                   THEN [@ EXCEPT !.i = "closed"]
                                   ELSE [@ EXCEPT !.a = "closed"]]
        s == [dev[d] EXCEPT !.peerConnections = StillConnected(cs, d, @, k)]
    IN IF ~cl.isContinuityHost /\ PeerRefSet(s) /\ PeerAlive(s)
       THEN /\ conns' = Append(cs, NewConnection(d, PeerId(s, d), ConnPeer(cs[k], d), TRUE))
            /\ dev' = [dev EXCEPT ![d] = s]
       ELSE /\ conns' = cs
            /\ dev' = [dev EXCEPT ![d] = InitiateContinuity(s)]

PeerClose(k, d) ==
    /\ conns[k].lost /\ ConnOpen(conns[k], d)
    /\ HandlePeerClose(k, d, MountClosure(d))
    /\ UNCHANGED <<registry, server, budget>>

----------------------------------------------------------------------------
(* The page is left (lines 162-167, 868-872). *)

\* The cleanup of the lifecycle effect: gracefullyClosePeerConnection
\* destroys the peer peerRef holds, which closes its connections and gives
\* its identifier back; a peer whose registration is still pending is not in
\* peerRef and lives on.
Unmount(d) ==
    /\ dev[d].pc \notin {"start", "closed"}
    /\ IF PeerAlive(dev[d])
       THEN /\ dev' = [dev EXCEPT ![d].pc = "closed", ![d].peer = "destroyed",
                                  ![d].peers = DestroyPeer(@)]
            /\ registry' = IF registry = d THEN 0 ELSE registry
            /\ conns' = [ k \in DOMAIN conns |->
                            IF conns[k].from = d
                            THEN [conns[k] EXCEPT !.i = "closed", !.lost = TRUE,
                                                  !.qa = <<>>, !.qi = <<>>,
                                                  !.syncLeft = 0, !.synced = FALSE]
                            ELSE IF conns[k].to = d
                            THEN [conns[k] EXCEPT !.a = "closed", !.lost = TRUE,
                                                  !.qa = <<>>, !.qi = <<>>,
                                                  !.syncLeft = 0, !.synced = FALSE]
                            ELSE conns[k] ]
       ELSE /\ dev' = [dev EXCEPT ![d].pc = "closed"]
            /\ UNCHANGED <<registry, conns>>
    /\ UNCHANGED <<server, budget>>

\* conn.on("error", reject) (line 726) for a dial to an identifier no peer
\* holds; the catch is that of ConnectFail.
ConnectUnanswered(k) ==
    /\ conns[k].i = "connecting" /\ conns[k].a = "none" /\ ~conns[k].lost
    /\ Owner(conns[k].toId) = 0
    /\ conns' = [conns EXCEPT ![k].i = "failed"]
    /\ dev' = [dev EXCEPT ![conns[k].from] =
                 IF conns[k].reconnect THEN InitiateContinuity(@) ELSE @]
    /\ UNCHANGED <<registry, server, budget>>

----------------------------------------------------------------------------

(* Specifications. *)

Lifecycle ==
    \/ \E d \in DOMAIN dev : Mount(d)
    \/ \E d \in DOMAIN dev : \E p \in server.progress : LoadProgress(d, p)

Heartbeat == \E d \in DOMAIN dev : PingTick(d)

UserActions ==
    \/ \E d \in DOMAIN dev : LocalCheck(d)
    \/ \E d \in DOMAIN dev : NextQuestion(d)
    \/ \E d \in DOMAIN dev :
         \E newSelected \in Selections(Len(dev[d].currentQuestion.answers)) :
           SelectAnswers(d, newSelected)
    \/ \E d \in DOMAIN dev : ResetProgress(d)

Negotiation ==
    \/ \E d \in DOMAIN dev : HostPeerOpen(d)
    \/ \E d \in DOMAIN dev : HostPeerUnavailableId(d)
    \/ \E d \in DOMAIN dev : ClientPeerOpen(d)
    \/ \E k \in DOMAIN conns : Accept(k)
    \/ \E k \in DOMAIN conns : OpenAcceptor(k)
    \/ \E k \in DOMAIN conns : OpenInitiator(k)
    \/ \E k \in DOMAIN conns : \E d \in DOMAIN dev : Deliver(k, d)

Faults ==
    \/ \E d \in DOMAIN dev : HostPeerError(d)
    \/ \E k \in DOMAIN conns : ConnectFail(k)
    \/ \E k \in DOMAIN conns : ConnectionLost(k)
    \/ \E k \in DOMAIN conns : \E d \in DOMAIN dev : PeerClose(k, d)

\* Two devices, user actions and transport faults.
Init == Start(2, QuizOne, {NoProgress}, MaxSyncActions, MaxFaults)

Next == Lifecycle \/ Heartbeat \/ UserActions \/ Negotiation \/ Faults

Spec == Init /\ [][Next]_vars

\* NumDevices devices negotiate over a transport without faults.
InitNeg == Start(NumDevices, QuizOne, {NoProgress, StoredProgressOne}, 0, 0)

NextNeg == Lifecycle \/ Negotiation

SpecNeg == InitNeg /\ [][NextNeg]_vars

\* A host and two clients over a transport without faults.
InitRelay == Start(3, QuizOne, {NoProgress}, MaxRelayActions, 0)

NextRelay == Lifecycle \/ Heartbeat \/ UserActions \/ Negotiation

SpecRelay == InitRelay /\ [][NextRelay]_vars

\* Two devices over a transport with faults; no user action.
InitReconnect == Start(2, QuizOne, {NoProgress, StoredProgressOne}, 0, MaxFaults)

NextReconnect == Lifecycle \/ Negotiation \/ Faults

SpecReconnect == InitReconnect /\ [][NextReconnect]_vars

\* One device on its own, with any saved progress.
InitSolo == Start(1, Quiz, StoredProgress \cup {NoProgress}, MaxUserActions, 0)

NextSolo == Lifecycle \/ UserActions \/ \E d \in DOMAIN dev : HostPeerOpen(d)

SpecSolo == InitSolo /\ [][NextSolo]_vars

\* Two devices, one of which may send its initial_sync again.
InitResync == Start(2, QuizOne, {NoProgress, StoredProgressOne}, 0, MaxFaults)

ProtocolErrors == \E k \in DOMAIN conns : RepeatedSync(k)

NextResync == Lifecycle \/ Negotiation \/ ProtocolErrors

SpecResync == InitResync /\ [][NextResync]_vars

\* Two devices whose registration may fail, and their users.
InitFailed == Start(2, Quiz, {NoProgress}, MaxSyncActions, MaxFaults)

RegistrationErrors == \E d \in DOMAIN dev : HostPeerError(d)

NextFailed == Lifecycle \/ UserActions \/ Negotiation \/ RegistrationErrors

SpecFailed == InitFailed /\ [][NextFailed]_vars

\* Two devices and their users; the saved progress may be that of a mastered
\* quiz.
InitCounts == Start(2, QuizOne, {NoProgress, StoredProgressDone}, MaxSyncActions, 0)

NextCounts == Lifecycle \/ UserActions \/ Negotiation

SpecCounts == InitCounts /\ [][NextCounts]_vars

\* A host and two clients over a transport with faults; no device has a
\* question to show.
InitDrop == Start(3, QuizOne, {StoredProgressGone}, 0, MaxFaults)

\* Negotiation without the data callbacks: no message is sent between
\* devices that have no question to show.
Dialling ==
    \/ \E d \in DOMAIN dev : HostPeerOpen(d)
    \/ \E d \in DOMAIN dev : HostPeerUnavailableId(d)
    \/ \E d \in DOMAIN dev : ClientPeerOpen(d)
    \/ \E k \in DOMAIN conns : Accept(k)
    \/ \E k \in DOMAIN conns : OpenAcceptor(k)
    \/ \E k \in DOMAIN conns : OpenInitiator(k)

NextDrop == Lifecycle \/ Dialling \/ Faults

SpecDrop == InitDrop /\ [][NextDrop]_vars

\* Two devices negotiate; the saved progress may be that of a mastered quiz.
InitMastered == Start(2, QuizOne, {NoProgress, StoredProgressDone}, 0, 0)

NextMastered == Lifecycle \/ Negotiation

SpecMastered == InitMastered /\ [][NextMastered]_vars

\* Two devices whose peers also send what this page never sends unasked.
InitForeign == Start(2, QuizOne, {NoProgress, StoredProgressOne}, 0, 0)

Foreign ==
    \E k \in DOMAIN conns : \E d \in DOMAIN dev : \E data \in ForeignMessages :
        ForeignMessage(k, d, data)

NextForeign == Lifecycle \/ Negotiation \/ Foreign

SpecForeign == InitForeign /\ [][NextForeign]_vars

\* Two devices whose users may leave the page; the callbacks that are due
\* are run in the end.
InitReelect == Start(NumDevices, QuizOne, {NoProgress}, 0, 0)

Departure == \E d \in DOMAIN dev : Unmount(d)

Callbacks ==
    \/ Lifecycle
    \/ Negotiation
    \/ \E k \in DOMAIN conns : ConnectUnanswered(k)
    \/ \E k \in DOMAIN conns : \E d \in DOMAIN dev : PeerClose(k, d)

NextReelect == Departure \/ Callbacks

SpecReelect == InitReelect /\ [][NextReelect]_vars /\ WF_vars(Callbacks)

----------------------------------------------------------------------------
(* Claims. *)

ToSet(s) == { s[i] : i \in 1..Len(s) }

\* Device d holds connection k, open at both ends, to device h.
Connected(d, h) ==
    \E k \in DOMAIN conns :
        /\ conns[k].from = d /\ conns[k].to = h
        /\ conns[k].i = "open" /\ conns[k].a = "open"
        /\ Includes(dev[d].peerConnections, k)
        /\ Includes(dev[h].peerConnections, k)

\* Device h is the Host and every other device is a Client connected to it.
StarAround(h) ==
    /\ dev[h].peer = "host" /\ dev[h].isContinuityHost
    /\ \A d \in DOMAIN dev \ {h} :
          /\ dev[d].peer = "client" /\ ~dev[d].isContinuityHost
          /\ Connected(d, h)

\* Every device has run initiateContinuity and no step of the negotiation
\* is left to take.
NegotiationEnded ==
    /\ \A d \in DOMAIN dev : dev[d].pc # "start"
    /\ ~ENABLED Negotiation

\* C1: devices that run initiateContinuity under the same rendezvous
\* identifier at the same time never hold the Host role together, and
\* however their steps interleave, when the negotiation has ended exactly one
\* of them is the Host and every other one is a Client holding an open
\* connection to that Host.
C1_OneHostOthersConnected ==
    /\ Cardinality({ d \in DOMAIN dev : dev[d].isContinuityHost }) <= 1
    /\ NegotiationEnded => \E h \in DOMAIN dev : StarAround(h)

C1_Witness ==
    /\ NegotiationEnded
    /\ \E h \in DOMAIN dev : StarAround(h)
    /\ Len(conns) = NumDevices - 1

\* The messages device d has sent on connection record c that are in flight.
Outbox(c, d) == IF c.from = d THEN c.qa ELSE c.qi

\* This step is device d's data callback on connection k, for a message of
\* the given type.
Receives(k, d, type) ==
    /\ ConnOpen(conns[k], d)
    /\ Len(Inbox(conns[k], d)) > 0
    /\ Head(Inbox(conns[k], d)).type = type
    /\ Deliver(k, d)

\* This step runs checkAnswer at device d: the button, or a received
\* answer_checked.
ChecksAnswer(d) ==
    \/ LocalCheck(d)
    \/ \E k \in DOMAIN conns : Receives(k, d, "answer_checked")

\* C2: whenever the Host receives a QuestionUpdate on the connection from one
\* client, it appends that same QuestionUpdate to what it has sent on every
\* other connection that is open in its active set, and sends nothing on
\* the connection the message came from.
C2_HostRelaysToOthers ==
    [][ \A k \in DOMAIN conns :
          (conns[k].asHost /\ Receives(k, conns[k].to, "question_update"))
          => LET h == conns[k].to
                 data == Head(conns[k].qa)
             IN /\ Outbox(conns'[k], h) = Outbox(conns[k], h)
                /\ \A j \in DOMAIN conns \ {k} :
                      (Includes(dev[h].peerConnections, j) /\ ConnOpen(conns[j], h))
                      => Outbox(conns'[j], h) =
                           Append(Outbox(conns[j], h),
                                  QuestionUpdateMessage(data.question,
                                                        data.selectedAnswers)) ]_vars

\* C3: when a connection the Host accepted opens at the Host, which holds a
\* current question, nothing has been sent on it yet and the Host sends
\* exactly an InitialSync carrying its counters, recurrence list and start
\* time, followed by a QuestionUpdate carrying its current question and its
\* current selection.
C3_SyncOnAccept ==
    [][ \A k \in DOMAIN conns :
          ( /\ conns[k].asHost
            /\ dev[conns[k].to].currentQuestion # NoQuestion
            /\ OpenAcceptor(k) )
          => LET s == dev[conns[k].to]
             IN /\ conns[k].qi = <<>>
                /\ conns'[k].qi =
                     << InitialSyncMessage(s.startTime, s.correctAnswersCount,
                                           s.wrongAnswersCount, s.reoccurrences),
                        QuestionUpdateMessage(s.currentQuestion,
                                              s.selectedAnswers) >> ]_vars

\* C4: when the client processes the InitialSync the Host sent on a new
\* connection, its counters, recurrence list and start time become those the
\* Host held when it sent it, and when it processes the QuestionUpdate that
\* followed, its current question and selection become those the Host held
\* when it sent it.
C4_ClientEqualsHostAtSend ==
    [][ \A k \in DOMAIN conns :
          LET c == conns[k].from
              host == conns[k].snap
          IN /\ (conns[k].syncLeft = 2 /\ Deliver(k, c))
                => /\ dev'[c].correctAnswersCount = host.correctAnswersCount
                   /\ dev'[c].wrongAnswersCount = host.wrongAnswersCount
                   /\ dev'[c].reoccurrences = host.reoccurrences
                   /\ dev'[c].startTime = host.startTime
             /\ (conns[k].syncLeft = 1 /\ Deliver(k, c))
                => /\ dev'[c].currentQuestion = host.currentQuestion
                   /\ dev'[c].selectedAnswers = host.selectedAnswers ]_vars

\* C5: an answer check (the button, or a received AnswerChecked) at a device
\* whose current question is already checked changes neither the correct
\* count, nor the wrong count, nor the recurrence list.
C5_SecondCheckIsNoOp ==
    [][ \A d \in DOMAIN dev :
          (dev[d].questionChecked /\ ChecksAnswer(d))
          => /\ dev'[d].correctAnswersCount = dev[d].correctAnswersCount
             /\ dev'[d].wrongAnswersCount = dev[d].wrongAnswersCount
             /\ dev'[d].reoccurrences = dev[d].reoccurrences ]_vars

\* C10: when checkAnswer runs at a device on a current question that is not
\* yet checked, it counts the answer as correct if and only if the set of the
\* selected answer indices equals the set of the indices of the answers
\* flagged correct, and as wrong otherwise.
C10_CorrectIffSetsEqual ==
    [][ \A d \in DOMAIN dev :
          ( /\ dev[d].currentQuestion # NoQuestion
            /\ ~dev[d].questionChecked
            /\ ChecksAnswer(d) )
          => IF ToSet(dev[d].selectedAnswers)
                  = ToSet(CorrectIndices(dev[d].currentQuestion))
             THEN /\ dev'[d].correctAnswersCount = dev[d].correctAnswersCount + 1
                  /\ dev'[d].wrongAnswersCount = dev[d].wrongAnswersCount
             ELSE /\ dev'[d].correctAnswersCount = dev[d].correctAnswersCount
                  /\ dev'[d].wrongAnswersCount = dev[d].wrongAnswersCount + 1 ]_vars

\* The recurrence list R has an entry for question id with a count above 0.
CountAboveZero(R, id) ==
    \E i \in 1..Len(R) : R[i].id = id /\ R[i].reoccurrences > 0

\* C6: for the recurrence list R of every state, each outcome of
\* pickRandomQuestion(quiz, R) makes current and returns either no question or
\* one whose count in R is above 0, and when no entry of R is above 0 it marks
\* the quiz finished, makes no question current and returns none; and the
\* next-question step leaves the device so.
C6_PickOnlyAvailable ==
    /\ [](\A d \in DOMAIN dev :
            LET R == dev[d].reoccurrences IN
            \A o \in PickRandomQuestion(dev[d].quiz, R) :
              /\ o.returned = o.question
              /\ o.question # NoQuestion => CountAboveZero(R, o.question.id)
              /\ (\A i \in 1..Len(R) : R[i].reoccurrences <= 0)
                 => o.question = NoQuestion /\ o.finished = "true")
    /\ [][ \A d \in DOMAIN dev :
            NextQuestion(d)
            => LET R == dev[d].reoccurrences IN
               /\ dev'[d].currentQuestion # NoQuestion
                  => CountAboveZero(R, dev'[d].currentQuestion.id)
               /\ (\A i \in 1..Len(R) : R[i].reoccurrences <= 0)
                  => dev'[d].currentQuestion = NoQuestion /\ dev'[d].isQuizFinished ]_vars

\* A next question was picked after a check, past a question whose count is 0.
C6_Witness ==
    \E d \in DOMAIN dev :
        /\ dev[d].correctAnswersCount = 2
        /\ ~dev[d].questionChecked
        /\ dev[d].currentQuestion # NoQuestion
        /\ CountAboveZero(dev[d].reoccurrences, dev[d].currentQuestion.id)
        /\ \E i \in 1..Len(dev[d].reoccurrences) :
              dev[d].reoccurrences[i].reoccurrences = 0

\* C8: from recurrences [{1,1},{2,1}] with question 1 current and no answer
\* counted, a check with exactly the correct indices of question 1 selected
\* gives correct count 1 and recurrences [{1,0},{2,1}], and the next question
\* picked from there is question 2, with the count and the list unchanged.
C8_CheckThenNextPicksOther ==
    [][ \A d \in DOMAIN dev :
          /\ ( /\ dev[d].reoccurrences = <<Reoccurrence(1, 1), Reoccurrence(2, 1)>>
               /\ dev[d].currentQuestion.id = 1
               /\ dev[d].correctAnswersCount = 0
               /\ ToSet(dev[d].selectedAnswers)
                    = ToSet(CorrectIndices(dev[d].currentQuestion))
               /\ LocalCheck(d) )
             => /\ dev'[d].correctAnswersCount = 1
                /\ dev'[d].reoccurrences = <<Reoccurrence(1, 0), Reoccurrence(2, 1)>>
          /\ ( /\ dev[d].reoccurrences = <<Reoccurrence(1, 0), Reoccurrence(2, 1)>>
               /\ dev[d].currentQuestion.id = 1
               /\ dev[d].questionChecked
               /\ NextQuestion(d) )
             => /\ dev'[d].currentQuestion.id = 2
                /\ dev'[d].correctAnswersCount = dev[d].correctAnswersCount
                /\ dev'[d].reoccurrences = dev[d].reoccurrences ]_vars

\* The scenario has run on a fresh session.
C8_Witness ==
    \E d \in DOMAIN dev :
        /\ dev[d].startTime = Now(d)
        /\ dev[d].correctAnswersCount = 1 /\ dev[d].wrongAnswersCount = 0
        /\ dev[d].reoccurrences = <<Reoccurrence(1, 0), Reoccurrence(2, 1)>>
        /\ dev[d].currentQuestion.id = 2
        /\ ~dev[d].questionChecked

\* This step opens, at the Host, connection k dialled by a client after its
\* connection to the Host closed.
ReconnectOpens(k) ==
    conns[k].reconnect /\ conns[k].asHost /\ OpenAcceptor(k)

\* The InitialSync message of the state s.
SyncOf(s) ==
    InitialSyncMessage(s.startTime, s.correctAnswersCount, s.wrongAnswersCount,
                       s.reoccurrences)

\* The counters and the recurrence list of state s are those of state h.
SameProgress(s, h) ==
    /\ s.correctAnswersCount = h.correctAnswersCount
    /\ s.wrongAnswersCount = h.wrongAnswersCount
    /\ s.reoccurrences = h.reoccurrences

OnlyCountOf(R1, R2, id, new) ==
    /\ Len(R2) = Len(R1)
    /\ \A i \in 1..Len(R1) :
          R2[i] = IF R1[i].id = id
                  THEN [R1[i] EXCEPT !.reoccurrences = new[i]]
                  ELSE R1[i]

\* C11: a check at a device that holds a current question not yet checked
\* either adds one to the correct count, leaves the wrong count and lowers
\* the count of the current question by one, not below 0, or adds one to the
\* wrong count, leaves the correct count and raises the count of the current
\* question by the wrong-answer penalty of the device's settings; the counts
\* of the other questions stay.
C11_CheckChangesOneCounter ==
    [][ \A d \in DOMAIN dev :
          ( /\ dev[d].currentQuestion # NoQuestion
            /\ ~dev[d].questionChecked
            /\ ChecksAnswer(d) )
          => LET s == dev[d]
                 R == s.reoccurrences
                 id == s.currentQuestion.id
             IN \/ /\ dev'[d].correctAnswersCount = s.correctAnswersCount + 1
                   /\ dev'[d].wrongAnswersCount = s.wrongAnswersCount
                   /\ OnlyCountOf(R, dev'[d].reoccurrences, id,
                         [i \in 1..Len(R) |->
                            IF R[i].reoccurrences >= 1
                            THEN R[i].reoccurrences - 1 ELSE 0])
                \/ /\ dev'[d].wrongAnswersCount = s.wrongAnswersCount + 1
                   /\ dev'[d].correctAnswersCount = s.correctAnswersCount
                   /\ OnlyCountOf(R, dev'[d].reoccurrences, id,
                         [i \in 1..Len(R) |->
                            R[i].reoccurrences
                              + s.userSettings.wrong_answer_reoccurrences]) ]_vars

\* The device at the other end of connection k from device d.
OtherEnd(k, d) == IF conns[k].from = d THEN conns[k].to ELSE conns[k].from

\* C12: when a device receives the AnswerChecked of a peer that has checked
\* the question and the selection the device holds too, unchecked, and whose
\* counters and recurrence list are what the device's own check would
\* give, the device ends with the counters and the recurrence list of that
\* peer.
C12_ReceiverReachesSenderState ==
    [][ \A k \in DOMAIN conns : \A d \in DOMAIN dev :
          ( /\ Receives(k, d, "answer_checked")
            /\ dev[OtherEnd(k, d)].questionChecked
            /\ ~dev[d].questionChecked
            /\ dev[d].currentQuestion # NoQuestion
            /\ dev[d].currentQuestion = dev[OtherEnd(k, d)].currentQuestion
            /\ dev[d].selectedAnswers = dev[OtherEnd(k, d)].selectedAnswers
            /\ SameProgress(CheckAnswer(dev[d], dev[d]), dev[OtherEnd(k, d)]) )
          => SameProgress(dev'[d], dev[OtherEnd(k, d)]) ]_vars

\* This step is a change of the selection, an effective check or an advance
\* to the next question by the user of device d.
UserActs(d) ==
    \/ /\ \E newSelected \in Selections(Len(dev[d].currentQuestion.answers)) :
            SelectAnswers(d, newSelected)
       /\ dev'[d].selectedAnswers # dev[d].selectedAnswers
    \/ LocalCheck(d)
    \/ NextQuestion(d)

\* C13: every change of the selection (to the empty selection too), every
\* effective check and every advance to the next question by the user of a
\* device sends one message, a QuestionUpdate or an AnswerChecked, on every
\* connection that is open in the device's active set.
C13_UserActionIsBroadcast ==
    [][ \A d \in DOMAIN dev :
          UserActs(d)
          => \A k \in DOMAIN conns :
               ( /\ Includes(dev[d].peerConnections, k)
                 /\ ConnOpen(conns[k], d) /\ ~conns[k].lost )
               => /\ Len(Outbox(conns'[k], d)) = Len(Outbox(conns[k], d)) + 1
                  /\ Outbox(conns'[k], d)[Len(Outbox(conns'[k], d))].type
                       \in {"question_update", "answer_checked"} ]_vars

\* The dial of device d after the close of its connection has failed.
ReconnectFailed(d) ==
    \E k \in DOMAIN conns :
        conns[k].from = d /\ conns[k].reconnect /\ conns[k].i = "failed"

\* C14: when a Client's connection to the Host closes the Client dials the
\* same identifier once more, and a Client whose dial has failed while the
\* rendezvous identifier is free becomes the Host in the end, unless its
\* page is left.
C14_ClientTakesOverAsHost ==
    /\ [][ \A k \in DOMAIN conns : \A d \in DOMAIN dev :
            (dev[d].peer = "client" /\ PeerClose(k, d))
            => /\ Len(conns') = Len(conns) + 1
               /\ conns'[Len(conns')].from = d
               /\ conns'[Len(conns')].toId = ConnPeer(conns[k], d) ]_vars
    /\ \A d \in 1..NumDevices :
          (ReconnectFailed(d) /\ dev[d].peer = "client" /\ registry = 0)
          ~> (dev[d].isContinuityHost \/ dev[d].pc = "closed")

\* C15: when the Host's connection to a Client closes the Host only takes
\* that connection out of its active set: it dials nobody, does not re-enter
\* host registration, and stays the Host.
C15_HostOnlyRemovesConnection ==
    [][ \A k \in DOMAIN conns : \A d \in DOMAIN dev :
          (dev[d].isContinuityHost /\ PeerClose(k, d))
          => /\ Len(conns') = Len(conns)
             /\ dev'[d].peer = "host"
             /\ dev'[d].isContinuityHost
             /\ ~Includes(dev'[d].peerConnections, k) ]_vars

\* The first dial of connection k, to the rendezvous identifier, has failed.
FirstDialFailed(k) == conns[k].i = "failed" /\ ~conns[k].reconnect

C17_HostOnlyByRegistration ==
    [][ \A d \in DOMAIN dev :
          /\ (~dev[d].isContinuityHost /\ dev'[d].isContinuityHost)
             => /\ dev[d].peer = "hostPending"
                /\ registry = 0 /\ registry' = d
                /\ dev'[d].peer = "host"
          /\ dev[d].isContinuityHost
             => dev'[d].isContinuityHost /\ dev'[d].peer = "host" ]_vars

\* The Host has handled the close of a connection and is the Host still.
C17_Witness ==
    \E k \in DOMAIN conns :
        /\ conns[k].to # 0
        /\ conns[k].a = "closed"
        /\ dev[conns[k].to].isContinuityHost
        /\ dev[conns[k].to].peer = "host"
        /\ registry = conns[k].to

\* C18: a second initial_sync a client receives on a connection on which it
\* has handled one already is ignored: counters, recurrence list and start
\* time stay as they are.
C18_SecondSyncIgnored ==
    [][ \A k \in DOMAIN conns : \A d \in DOMAIN dev :
          (conns[k].from = d /\ conns[k].synced /\ Receives(k, d, "initial_sync"))
          => /\ dev'[d].correctAnswersCount = dev[d].correctAnswersCount
             /\ dev'[d].wrongAnswersCount = dev[d].wrongAnswersCount
             /\ dev'[d].reoccurrences = dev[d].reoccurrences
             /\ dev'[d].startTime = dev[d].startTime ]_vars

\* C19: a question_update or answer_checked a client receives on a
\* connection on which it has handled no initial_sync yet is not applied:
\* current question, selection, checked flag and counters stay as they are.
C19_NothingAppliedBeforeSync ==
    [][ \A k \in DOMAIN conns : \A d \in DOMAIN dev :
          ( /\ conns[k].from = d /\ ~conns[k].synced
            /\ (Receives(k, d, "question_update") \/ Receives(k, d, "answer_checked")) )
          => /\ dev'[d].currentQuestion = dev[d].currentQuestion
             /\ dev'[d].selectedAnswers = dev[d].selectedAnswers
             /\ dev'[d].questionChecked = dev[d].questionChecked
             /\ dev'[d].correctAnswersCount = dev[d].correctAnswersCount
             /\ dev'[d].wrongAnswersCount = dev[d].wrongAnswersCount ]_vars

\* C20: a Client never relays: when a device that is not the Host handles a
\* received initial_sync, question_update or answer_checked, it sends nothing
\* on any connection.
C20_ClientNeverRelays ==
    [][ \A k \in DOMAIN conns : \A d \in DOMAIN dev :
          ( /\ ~dev[d].isContinuityHost
            /\ \/ Receives(k, d, "initial_sync")
               \/ Receives(k, d, "question_update")
               \/ Receives(k, d, "answer_checked") )
          => \A j \in DOMAIN conns :
                (conns[j].from = d \/ conns[j].to = d)
                => Outbox(conns'[j], d) = Outbox(conns[j], d) ]_vars

\* A Client has handled the Host's answer_checked (only the Host's user has
\* acted) and nothing of the Client's is in flight.
C20_Witness ==
    \E k \in DOMAIN conns :
        /\ conns[k].synced /\ conns[k].i = "open" /\ conns[k].a = "open"
        /\ ~conns[k].lost
        /\ ~dev[conns[k].from].isContinuityHost
        /\ dev[conns[k].from].questionChecked
        /\ dev[conns[k].from].correctAnswersCount + dev[conns[k].from].wrongAnswersCount = 1
        /\ conns[k].qa = <<>> /\ conns[k].qi = <<>>

\* C21: a received question_update, at the Host or at a Client, replaces the
\* current question and the selection by the message's, clears the checked
\* flag, and leaves both counters and the recurrence list as they are.
C21_QuestionUpdateApplied ==
    [][ \A k \in DOMAIN conns : \A d \in DOMAIN dev :
          Receives(k, d, "question_update")
          => LET data == Head(Inbox(conns[k], d))
             IN /\ dev'[d].currentQuestion = data.question
                /\ dev'[d].selectedAnswers = data.selectedAnswers
                /\ ~dev'[d].questionChecked
                /\ dev'[d].correctAnswersCount = dev[d].correctAnswersCount
                /\ dev'[d].wrongAnswersCount = dev[d].wrongAnswersCount
                /\ dev'[d].reoccurrences = dev[d].reoccurrences ]_vars

\* The Host, whose page shows no question card yet, holds the selection a
\* Client's user made.
C21_Witness ==
    \E d \in DOMAIN dev :
        /\ dev[d].isContinuityHost
        /\ dev[d].pc = "awaitProgress"
        /\ dev[d].currentQuestion # NoQuestion
        /\ dev[d].selectedAnswers # <<>>

\* Connection k is open and in the active set of device d, whose page is
\* open.
ActiveOpen(d, k) ==
    /\ dev[d].pc \notin {"start", "closed"}
    /\ Includes(dev[d].peerConnections, k)
    /\ ConnOpen(conns[k], d) /\ ~conns[k].lost

\* C22: the tick of the heartbeat at a device sends a ping on every
\* connection that is open in the device's active set at that time.
C22_TickPingsEveryOpenConnection ==
    \A d \in DOMAIN dev : \A k \in DOMAIN conns :
        ActiveOpen(d, k)
        => ENABLED ( /\ PingTick(d)
                     /\ Outbox(conns'[k], d) = Append(Outbox(conns[k], d), PingMessage) )

\* C23: every ping a device receives on an open connection, as the Host or
\* as a Client, is answered by a pong on the connection it came on.
C23_PingAnsweredOnSameConnection ==
    [][ \A k \in DOMAIN conns : \A d \in DOMAIN dev :
          Receives(k, d, "ping")
          => Outbox(conns'[k], d) = Append(Outbox(conns[k], d), PongMessage) ]_vars

\* The session state of device state s.
SessionState(s) ==
    << s.currentQuestion, s.selectedAnswers, s.questionChecked,
       s.correctAnswersCount, s.wrongAnswersCount, s.reoccurrences, s.startTime >>

\* C24: a received ping or pong changes nothing of the session state:
\* current question, selection, checked flag, both counters, recurrence list
\* and start time stay as they are.
C24_PingPongKeepSessionState ==
    [][ \A k \in DOMAIN conns : \A d \in DOMAIN dev :
          (Receives(k, d, "ping") \/ Receives(k, d, "pong"))
          => SessionState(dev'[d]) = SessionState(dev[d]) ]_vars

\* The Host has answered a ping and holds the stored progress still; its
\* pong is about to reach the Client.
C24_Witness ==
    \E k \in DOMAIN conns :
        /\ conns[k].qi = <<PongMessage>>
        /\ conns[k].i = "open" /\ ~conns[k].lost
        /\ dev[conns[k].to].isContinuityHost
        /\ dev[conns[k].to].currentQuestion # NoQuestion
        /\ dev[conns[k].to].wrongAnswersCount = StoredProgressOne.wrong_answers_count
        /\ dev[conns[k].from].currentQuestion # NoQuestion

\* The message at the head of device d's inbox on connection k is one its
\* handler has no case for: an unknown type, or an initial_sync at the Host.
NoCaseFor(k, d) ==
    /\ ConnOpen(conns[k], d) /\ ~conns[k].lost
    /\ Len(Inbox(conns[k], d)) > 0
    /\ \/ Head(Inbox(conns[k], d)).type = "unknown"
       \/ /\ Head(Inbox(conns[k], d)).type = "initial_sync"
          /\ conns[k].to = d /\ conns[k].asHost

\* C25: a message of unknown type, an initial_sync at the Host included, is
\* dropped: the session state stays as it is, nothing is sent, and the
\* connection stays open and in the active set.
C25_UnknownMessageDropped ==
    [][ \A k \in DOMAIN conns : \A d \in DOMAIN dev :
          (NoCaseFor(k, d) /\ Deliver(k, d))
          => /\ SessionState(dev'[d]) = SessionState(dev[d])
             /\ \A j \in DOMAIN conns :
                   (conns[j].from = d \/ conns[j].to = d)
                   => Outbox(conns'[j], d) = Outbox(conns[j], d)
             /\ ConnOpen(conns'[k], d) /\ ~conns'[k].lost
             /\ dev'[d].peerConnections = dev[d].peerConnections ]_vars

\* An initial_sync that differs from the Host's progress is about to be
\* handled by the Host.
C25_Witness ==
    \E k \in DOMAIN conns :
        /\ conns[k].to # 0
        /\ NoCaseFor(k, conns[k].to)
        /\ Head(conns[k].qa).type = "initial_sync"
        /\ dev[conns[k].to].isContinuityHost
        /\ Includes(dev[conns[k].to].peerConnections, k)
        /\ dev[conns[k].to].currentQuestion # NoQuestion
        /\ dev[conns[k].to].wrongAnswersCount # Head(conns[k].qa).wrongAnswersCount
        /\ ENABLED Deliver(k, conns[k].to)

\* Device d takes part in no connection.
Unconnected(d) ==
    /\ dev[d].peerConnections = <<>>
    /\ \A k \in DOMAIN conns : conns[k].from # d /\ conns[k].to # d

\* C26: a device whose host registration failed with an error other than
\* that of a taken identifier goes on alone: it gets no role and no
\* connection, and its local check and next question update the session as
\* they do without synchronisation, sending nothing.
C26_FailedRegistrationGoesSolo ==
    /\ [](\A d \in DOMAIN dev :
            dev[d].peer = "failed" => ~dev[d].isContinuityHost /\ Unconnected(d))
    /\ [][ \A d \in DOMAIN dev :
            dev[d].peer = "failed"
            => /\ dev'[d].peer = "failed"
               /\ LocalCheck(d)
                  => /\ conns' = conns
                     /\ dev'[d].questionChecked
                     /\ dev'[d].correctAnswersCount + dev'[d].wrongAnswersCount
                          = dev[d].correctAnswersCount + dev[d].wrongAnswersCount + 1
                     /\ dev'[d].correctAnswersCount = dev[d].correctAnswersCount + 1
                        <=> IsCorrect(CorrectIndices(dev[d].currentQuestion),
                                       dev[d].selectedAnswers)
               /\ NextQuestion(d)
                  => /\ conns' = conns
                     /\ ~dev'[d].questionChecked
                     /\ dev'[d].selectedAnswers = <<>>
                     /\ dev'[d].currentQuestion # NoQuestion
                        => CountAboveZero(dev[d].reoccurrences, dev'[d].currentQuestion.id) ]_vars

\* A device whose registration failed has checked an answer and moved on to
\* the next question.
C26_Witness ==
    \E d \in DOMAIN dev :
        /\ dev[d].peer = "failed"
        /\ dev[d].correctAnswersCount + dev[d].wrongAnswersCount = 1
        /\ ~dev[d].questionChecked
        /\ dev[d].currentQuestion # NoQuestion
        /\ \E e \in DOMAIN dev : dev[e].isContinuityHost

\* C27: no recurrence count is ever below 0, on a device or in a message in
\* flight, whatever checks, messages, loads and resets there have been.
C27_CountsNeverNegative ==
    /\ \A d \in DOMAIN dev :
          \A i \in 1..Len(dev[d].reoccurrences) :
              dev[d].reoccurrences[i].reoccurrences >= 0
    /\ \A k \in DOMAIN conns :
          \A m \in ToSet(conns[k].qa) \cup ToSet(conns[k].qi) :
              m.type = "initial_sync"
              => \A i \in 1..Len(m.reoccurrences) : m.reoccurrences[i].reoccurrences >= 0

\* A device has given the right answer to a question whose count was 0
\* already, and the count is 0 still.
C27_Witness ==
    \E d \in DOMAIN dev :
        /\ dev[d].questionChecked
        /\ dev[d].correctAnswersCount = StoredProgressDone.correct_answers_count + 1
        /\ dev[d].wrongAnswersCount = 0
        /\ dev[d].reoccurrences = <<Reoccurrence(1, 0)>>

\* Device d has handled the close of connection k.
CloseHandled(k, d) ==
    \/ conns[k].from = d /\ conns[k].i = "closed"
    \/ conns[k].to = d /\ conns[k].a = "closed"

\* C28: a connection whose close a device has handled is not in the device's
\* active set and never comes back into it; a reconnect makes a new
\* connection; and the close of one connection leaves the open connections
\* to other peers in the set.
C28_ClosedConnectionsStayOut ==
    /\ [](\A d \in DOMAIN dev : \A k \in DOMAIN conns :
            CloseHandled(k, d) => ~Includes(dev[d].peerConnections, k))
    /\ [][ \A d \in DOMAIN dev : \A k \in DOMAIN conns :
            /\ CloseHandled(k, d) => CloseHandled(k, d)'
            /\ conns'[k].from = conns[k].from /\ conns'[k].toId = conns[k].toId
            /\ PeerClose(k, d)
               => /\ Len(conns') > Len(conns)
                     => /\ conns'[Len(conns')].i = "connecting"
                        /\ conns'[Len(conns')].from = d
                        /\ ~Includes(dev'[d].peerConnections, Len(conns'))
                  /\ \A j \in DOMAIN conns :
                        ( /\ Includes(dev[d].peerConnections, j)
                          /\ ConnOpen(conns[j], d)
                          /\ ConnPeer(conns[j], d) # ConnPeer(conns[k], d) )
                        => Includes(dev'[d].peerConnections, j) ]_vars

\* The Host has handled the close of one Client's connection and holds the
\* open connection of the other Client still.
C28_Witness ==
    \E k, j \in DOMAIN conns :
        /\ k # j
        /\ conns[k].to # 0 /\ conns[j].to = conns[k].to
        /\ dev[conns[k].to].isContinuityHost
        /\ conns[k].a = "closed"
        /\ conns[j].a = "open" /\ conns[j].from # conns[k].from
        /\ dev[conns[k].to].peerConnections = <<j>>

\* C30: whenever a device's session is marked finished, none of its
\* recurrence counts is above 0.
C30_FinishedMeansNothingLeft ==
    \A d \in DOMAIN dev :
        dev[d].isQuizFinished => Len(Available(dev[d].reoccurrences)) = 0


----------------------------------------------------------------------------
(* Saving progress in a session: two devices with synchronisation of
   progress on, their saves logged. *)

InitSave ==
    StartAudited(2, QuizOne, {NoProgress, StoredProgressOne}, MaxSyncActions, 0)

NextSave == Lifecycle \/ UserActions \/ Negotiation

SpecSave == InitSave /\ [][NextSave]_vars

\* C31: progress is posted to the progress service only by a device that is
\* the Host or has no connection in its active set; a Client with at least
\* one connection in its active set saves without posting.
C31_OnlyHostOrUnconnectedPosts ==
    \A r \in server.saves : r.posted => r.host \/ r.connections = 0

\* A Client with synchronisation on and a connection in its active set has
\* saved its progress, without a post, and the Host has posted while
\* connected.
C31_ConnectedClientSavedLocally ==
    /\ \E r \in server.saves :
          r.sync /\ ~r.host /\ r.connections > 0 /\ ~r.posted
    /\ \E r \in server.saves : r.host /\ r.connections > 0 /\ r.posted

----------------------------------------------------------------------------
(* The peer identities of a device over registrations, failures, closes and
   unmounts. *)

InitIdentity == Start(2, QuizOne, {StoredProgressGone}, 0, MaxFaults)

NextIdentity == Lifecycle \/ Dialling \/ Faults \/ Departure

SpecIdentity == InitIdentity /\ [][NextIdentity]_vars

\* The peer identities of device d that are not destroyed.
LivePeers(d) == { i \in DOMAIN dev[d].peers : ~dev[d].peers[i].destroyed }

\* C32: a device has at most one peer identity that is not destroyed, and a
\* step of a device whose peer identity is recorded in peerRef creates no
\* peer identity.
C32_AtMostOneLivePeer ==
    /\ [](\A d \in DOMAIN dev : Cardinality(LivePeers(d)) <= 1)
    /\ [][\A d \in DOMAIN dev :
            PeerRefSet(dev[d]) => Len(dev'[d].peers) = Len(dev[d].peers)]_vars

\* A Client, whose host peer was refused and destroyed and whose client peer
\* is recorded, has handled the close of its connection to the Host and has
\* had its redial fail: it still has its client peer alone.
C32_ClientAfterFailedRedial ==
    \E d \in DOMAIN dev :
      /\ dev[d].peer = "client"
      /\ Len(dev[d].peers) = 2
      /\ LivePeers(d) = {2}
      /\ \E k \in DOMAIN conns :
            conns[k].from = d /\ conns[k].reconnect /\ conns[k].i = "failed"
====
